---- MODULE Spec2Model ----
(***************************************************************************)
(* TutorQuest backend: the question engine (services/questions.py), the    *)
(* video pipeline (services/video.py) and the routes of api.py that call   *)
(* them, as state machines over the persistent store (questions table,     *)
(* 'videos' bucket), the sandbox service and the completion service.       *)
(***************************************************************************)
EXTENDS Integers, Sequences, FiniteSets, Bags, TLC

VARIABLES
    questions,   \* the "questions" table: a sequence of rows, in insertion order
    bucket,      \* the 'videos' storage bucket: file name -> object
    now,         \* the wall clock, in hours
    nextUuid,    \* source of uuid.uuid4(): the next unused identifier
    gv,          \* the /videos/generate request: position, locals, and (failed_at,
                 \* failure) the stage that raised and what it raised
    sandboxes,   \* the sandbox service: one record per sandbox ever created
    calls,       \* the external calls the current /videos/generate request made, in order
    va,          \* the /questions/validate requests in flight between their read and
                 \* their write of the row: a bag of their locals
    delivered,   \* what /questions/validate answered last: the response or the exception
    answered,    \* the calls of /questions/validate so far: how many started, and per
                 \* question id how many returned and whether one failed
    nq,          \* the last /questions/next request: inputs, prompt sent, outcome
    cl,          \* the /videos/cleanup request: position and locals
    removes,     \* the storage remove() calls the current cleanup request made, in order
    settings,    \* config.settings: what the process was started with
    users,       \* the "users" table: user id -> row
    wh,          \* the last /webhooks/clerk request: what it carried, what the handler
                 \* did with it, and the response
    px,          \* a model response in the hands of the structured-output code:
                 \* the text, the strategies tried, the outcome
    sessions,    \* the "sessions" table: its rows, in insertion order
    cs,          \* the POST /sessions requests, one per serving process: position,
                 \* locals and outcome
    created,     \* per user, the session of the last POST /sessions that returned
    gu           \* the last GET /users/{user_id} request: its input and outcome

vars == <<questions, bucket, now, nextUuid, gv, sandboxes, calls, va, delivered, answered,
          nq, cl, removes, settings, users, wh, px, sessions, cs, created, gu>>

\* ---------------------------------------------------------------- bounds

\* Requests to /videos/generate that one behaviour runs, one after the other.
MaxRuns == 2
\* Questions stored when the video and answer specifications start.
MaxStored == 1
\* Requests to /questions/validate in flight at once.
MaxWorkers == 2
\* Calls to /questions/validate one behaviour starts.
MaxValidations == 4
\* Questions already stored in the session when /questions/next is called.
MaxSeed == 28
\* Calls to /questions/next one behaviour makes.
MaxNext == 2
\* Objects the 'videos' bucket holds at most.
MaxVideos == 3
\* Hours the clock advances at most.
MaxTicks == 1
\* Bytes of the longest output file the read-back is checked on.
MaxBytes == 4
\* Processes serving POST /sessions at once, and requests they take in all.
MaxProcesses == 2
MaxCreates == 3

\* ------------------------------------------------------------- constants

\* timedelta(days=1), in hours
Day == 24
\* min(1 + question_count // 3, 10): questions per difficulty level, and the ceiling
PerLevel == 3
MaxDifficulty == 10
MinDifficulty == 1
\* previous_questions[:5]
MaxPrevious == 5
\* new_attempts >= 3
OfferAt == 3
\* verify_result.result[:200] and render_result.result[:1000]
VerifyShown == 200
RenderShown == 1000

\* ------------------------------------------------------- values, helpers

\* Python's None / JSON null for an optional value; Some(x) is a present one.
None == <<>>
Some(x) == <<x>>

Min(a, b) == IF a <= b THEN a ELSE b
Max(a, b) == IF a >= b THEN a ELSE b

\* The one session the store holds, its user, and the id of no session.
SessionId == "session_1"
UserId == "user_1"
UnknownSessionId == "session_0"

\* A row of the questions table.
QuestionRow(id, text, difficulty) ==
    [id |-> id, session_id |-> SessionId, user_id |-> UserId, question |-> text,
     topic |-> "Long Division", difficulty |-> difficulty, attempts |-> 0]

\* The rows with the given id (at most one: ids are uuids).
RowsById(id) == {i \in 1..Len(questions) : questions[i].id = id}

\* An exception: its kind and what its message carries (str(e)).
Err(kind, detail) == [kind |-> kind, detail |-> detail]

\* ====================================================== structured output
\* services/chat.py and services/video.py: what the four call sites do with the
\* text of a model response. A text is a sequence of tokens: "{" and "}", a key
\* with its colon ("question:", ...), a scalar value with the comma that may
\* follow it, "nl" (a line break), a code fence, the word json, and "p", a word
\* of prose.

Keys == {"question:", "topic:", "explanation:", "hint:"}
Scalars == {"v", "w"}
IsSpace(t) == t = "nl"

\* text.strip()
RECURSIVE strip(_)
strip(text) ==
    IF text = <<>> THEN text
    ELSE IF IsSpace(Head(text)) THEN strip(Tail(text))
    ELSE IF IsSpace(text[Len(text)]) THEN strip(SubSeq(text, 1, Len(text) - 1))
    ELSE text

\* text[k:]
DropFirst(text, k) == SubSeq(text, k + 1, Len(text))

\* The three checks for a code fence (the token "fence": three backquotes):
\* startswith fence + "json" drops both, startswith fence drops it, endswith
\* fence drops it; strip() before and after.
StripFences(response) ==
    LET t0 == strip(response)
        t1 == IF Len(t0) >= 2 /\ t0[1] = "fence" /\ t0[2] = "json" THEN DropFirst(t0, 2) ELSE t0
        t2 == IF Len(t1) >= 1 /\ t1[1] = "fence" THEN DropFirst(t1, 1) ELSE t1
        t3 == IF Len(t2) >= 1 /\ t2[Len(t2)] = "fence" THEN SubSeq(t2, 1, Len(t2) - 1) ELSE t2
    IN strip(t3)

\* json.loads, as a parser of the token grammar
\*   value ::= scalar | "{" (key value)* "}"
\* ParseValue(t, i) is the position after the value that starts at t[i], 0 when
\* none starts there.
RECURSIVE ParseValue(_, _), ParseMembers(_, _)
ParseValue(t, i) ==
    IF i > Len(t) THEN 0
    ELSE IF t[i] \in Scalars THEN i + 1
    ELSE IF t[i] = "{" THEN ParseMembers(t, i + 1)
    ELSE 0
ParseMembers(t, i) ==
    IF i > Len(t) THEN 0
    ELSE IF t[i] = "}" THEN i + 1
    ELSE IF t[i] \in Keys
    THEN LET j == ParseValue(t, i + 1) IN IF j = 0 THEN 0 ELSE ParseMembers(t, j)
    ELSE 0

\* json.loads(text): the value (its tokens, white space dropped) when the text
\* is one JSON value with white space around and inside it; None for a
\* JSONDecodeError.
json_loads(text) ==
    LET t == SelectSeq(text, LAMBDA c : ~IsSpace(c))
    IN IF t # <<>> /\ ParseValue(t, 1) = Len(t) + 1 THEN Some(t) ELSE None

IsObject(value) == value[1] = "{"

\* result[key] / result.get(key): the value of a top-level key of an object,
\* None when it has no such key.
Get(object, key) ==
    LET depth(i) == Cardinality({k \in 1..(i - 1) : object[k] = "{"})
                      - Cardinality({k \in 1..(i - 1) : object[k] = "}"})
        at == {i \in 1..Len(object) : object[i] = key /\ depth(i) = 1}
    IN IF at = {} THEN None
       ELSE LET i == CHOOSE i \in at : \A j \in at : j <= i
            IN Some(SubSeq(object, i + 1, ParseValue(object, i + 1) - 1))

\* The second strategy: the text is split into lines and, for each i in order,
\* json.loads of the lines from the i-th on; the first that parses is returned.
LineStarts(text) == {1} \cup {k + 1 : k \in {k \in 1..Len(text) : text[k] = "nl"}}
LineSuffixParse(text) ==
    LET parsing == {i \in LineStarts(text) : json_loads(DropFirst(text, i - 1)) # None}
    IN IF parsing = {} THEN None
       ELSE json_loads(DropFirst(text, (CHOOSE i \in parsing : \A j \in parsing : i <= j) - 1))

\* The third strategy: from the first "{", count braces; at each "}" that brings
\* the count to 0, json.loads(text[start_idx:i+1]); the first that parses is
\* returned, and the scan goes on after one that does not.
BraceMatchParse(text) ==
    LET opening == {i \in 1..Len(text) : text[i] = "{"}
        start_idx == CHOOSE i \in opening : \A j \in opening : i <= j
        brace_count(i) == Cardinality({k \in start_idx..i : text[k] = "{"})
                            - Cardinality({k \in start_idx..i : text[k] = "}"})
        parsing == {i \in start_idx..Len(text) :
                       /\ text[i] = "}"
                       /\ brace_count(i) = 0
                       /\ json_loads(SubSeq(text, start_idx, i)) # None}
    IN IF opening = {} \/ parsing = {} THEN None
       ELSE json_loads(SubSeq(text, start_idx, CHOOSE i \in parsing : \A j \in parsing : i <= j))

\* ---- the recovery of generate_next_question and validate_answer, one step per
\* strategy, and the parse of generate_explanation on the same response.

\* No response yet, and a response as the completion call returned it; `embedded`
\* is the JSON object the response was built around, if any.
NoParse ==
    [pc |-> "none", embedded |-> None, response |-> <<>>, text |-> <<>>, tried |-> <<>>,
     e |-> None, result |-> None, raised |-> None, explained |-> None]
Received(embedded, response) ==
    [NoParse EXCEPT !.pc = "response", !.embedded = embedded, !.response = response]

ParseUnchanged ==
    UNCHANGED <<questions, bucket, now, nextUuid, gv, sandboxes, calls, va, delivered,
                answered, nq, cl, removes, settings, users, wh, sessions, cs, created, gu>>

\* text = response.content[0].text.strip(), the fence checks, text.strip()
recover_strip ==
    /\ px.pc = "response"
    /\ px' = [px EXCEPT !.pc = "direct", !.text = StripFences(px.response)]
    /\ ParseUnchanged

\* try: return json.loads(text) / except json.JSONDecodeError as e
recover_direct ==
    /\ px.pc = "direct"
    /\ LET tried == Append(px.tried, "direct")
           result == json_loads(px.text)
       IN px' = IF result # None
                THEN [px EXCEPT !.pc = "returned", !.tried = tried, !.result = result]
                ELSE [px EXCEPT !.pc = "lines", !.tried = tried,
                                !.e = Some(Err("JSONDecodeError", <<"direct">>))]
    /\ ParseUnchanged

\* the loop over the line suffixes
recover_lines ==
    /\ px.pc = "lines"
    /\ LET tried == Append(px.tried, "lines")
           result == LineSuffixParse(px.text)
       IN px' = IF result # None
                THEN [px EXCEPT !.pc = "returned", !.tried = tried, !.result = result]
                ELSE [px EXCEPT !.pc = "braces", !.tried = tried]
    /\ ParseUnchanged

\* the brace matching, and `raise e` when it too gives nothing
recover_braces ==
    /\ px.pc = "braces"
    /\ LET tried == Append(px.tried, "braces")
           result == BraceMatchParse(px.text)
       IN px' = IF result # None
                THEN [px EXCEPT !.pc = "returned", !.tried = tried, !.result = result]
                ELSE [px EXCEPT !.pc = "raised", !.tried = tried, !.raised = px.e]
    /\ ParseUnchanged

\* generate_explanation, from the response text on: the fence checks,
\* result = json.loads(text.strip()), return result["explanation"].
generate_explanation_parse(response) ==
    LET result == json_loads(StripFences(response))
    IN IF result = None THEN [kind |-> "JSONDecodeError", value |-> <<"explain">>]
       ELSE IF ~IsObject(result[1]) THEN [kind |-> "TypeError", value |-> <<"explanation">>]
       ELSE IF Get(result[1], "explanation:") = None
       THEN [kind |-> "KeyError", value |-> <<"explanation">>]
       ELSE [kind |-> "ok", value |-> Get(result[1], "explanation:")[1]]

\* generate_explanation is given the same response.
explain_parse ==
    /\ px.pc # "none"
    /\ px.explained = None
    /\ px' = [px EXCEPT !.explained = Some(generate_explanation_parse(px.response))]
    /\ ParseUnchanged

NextParser ==
    \/ recover_strip
    \/ recover_direct
    \/ recover_lines
    \/ recover_braces
    \/ explain_parse

\* The responses: a JSON object, in a code fence or not, with prose before and
\* after it or not; and texts without any JSON object.
Objects ==
    {<<"{", "question:", "v", "topic:", "w", "}">>,
     <<"{", "nl", "explanation:", "v", "nl", "}">>,
     <<"{", "question:", "{", "hint:", "v", "}", "}">>,
     <<"{", "}">>}
Befores == {<<>>, <<"p", "nl">>, <<"p">>, <<"p", "{", "p", "}", "nl">>, <<"p", "{", "p", "}">>}
Afters == {<<>>, <<"nl", "p">>, <<"p">>, <<"nl", "v">>}
Fenced(object) ==
    {object, <<"fence", "json", "nl">> \o object \o <<"nl", "fence">>,
     <<"fence", "nl">> \o object \o <<"nl", "fence">>}
WithoutObject ==
    {<<>>, <<"p">>, <<"p", "nl", "p">>, <<"{", "p", "}">>, <<"{", "question:">>,
     <<"p", "{", "nl", "question:", "v">>, <<"v">>, <<"p", "nl", "v">>,
     <<"fence", "json", "nl", "p", "nl", "fence">>}

\* ================================================================== video
\* services/video.py, and the route and service function that call it.

\* The result slot of a request that has not returned.
NoResult == [video_id |-> 0, status |-> "none", video_url |-> None, error |-> None]

\* The locals of a /videos/generate request before it runs.
IdleRequest(run) ==
    [pc |-> "idle", run |-> run, question_id |-> 0, question |-> None, video_id |-> 0,
     explanation |-> None, manim_code |-> None, sandbox |-> 0, write_command |-> None,
     verify_result |-> None, render_result |-> None, video_path |-> None,
     video_content_result |-> None, video_base64 |-> None, video_bytes |-> None,
     uploaded |-> None, video_url |-> None,
     result |-> NoResult, raised |-> None, failed_at |-> "none", failure |-> None]

\* A sandbox as daytona.create() returns it: no scene.py, no media file.
FreshSandbox == [scene |-> None, media |-> None, deleteCalls |-> 0, deleted |-> FALSE]

\* A file is its bytes. The files the render command produces here: one of 3
\* bytes and one of 4.
Artifacts == {<<77, 0, 255>>, <<255, 77, 0, 16>>}

\* A base64 text is a sequence of characters, each a number: 0..63 for the
\* character of that value (0..25 'A'-'Z', 26..51 'a'-'z', 52..61 '0'-'9',
\* 62 '+', 63 '/'), then '=', line feed and blank.
Pad == 64
Newline == 65
Blank == 66

\* What base64 (the command in the sandbox, and base64.b64encode) makes of bytes.
RECURSIVE b64encode(_)
b64encode(bytes) ==
    IF bytes = <<>> THEN <<>>
    ELSE IF Len(bytes) = 1
    THEN <<bytes[1] \div 4, (bytes[1] % 4) * 16, Pad, Pad>>
    ELSE IF Len(bytes) = 2
    THEN <<bytes[1] \div 4, (bytes[1] % 4) * 16 + bytes[2] \div 16, (bytes[2] % 16) * 4, Pad>>
    ELSE <<bytes[1] \div 4, (bytes[1] % 4) * 16 + bytes[2] \div 16,
           (bytes[2] % 16) * 4 + bytes[3] \div 64, bytes[3] % 64>>
         \o b64encode(SubSeq(bytes, 4, Len(bytes)))

\* video_content_result.result.strip()
RECURSIVE StripBlanks(_)
StripBlanks(text) ==
    IF text = <<>> THEN text
    ELSE IF Head(text) \in {Newline, Blank} THEN StripBlanks(Tail(text))
    ELSE IF text[Len(text)] \in {Newline, Blank}
    THEN StripBlanks(SubSeq(text, 1, Len(text) - 1))
    ELSE text

\* The filter with isalnum() alone: '+', '/' and '=' are dropped too.
KeepAlnum(c) == c \in 0..61

\* c.isalnum() or c in '+/='
KeepChar(c) == c \in 0..61 \/ c \in {62, 63, Pad}

\* ''.join(c for c in video_base64 if c.isalnum() or c in '+/=')
Clean(video_base64) == SelectSeq(video_base64, KeepChar)

\* base64.b64decode(text), character by character as binascii.a2b_base64 does in
\* its lenient mode: a character outside the alphabet is skipped; a data
\* character completes a byte from the second of its group on; '=' ends the
\* data when it completes a group of which two or three characters were read;
\* the text must not end inside a group. None stands for binascii.Error.
RECURSIVE a2b_base64(_, _, _, _, _, _)
a2b_base64(text, i, quad_pos, leftchar, pads, out) ==
    IF i > Len(text) THEN (IF quad_pos = 0 THEN Some(out) ELSE None)
    ELSE LET c == text[i]
         IN IF c = Pad
            THEN IF quad_pos >= 2 /\ quad_pos + pads + 1 >= 4
                 THEN Some(out)
                 ELSE a2b_base64(text, i + 1, quad_pos, leftchar,
                                 IF quad_pos >= 2 THEN pads + 1 ELSE pads, out)
            ELSE IF c \notin 0..63
            THEN a2b_base64(text, i + 1, quad_pos, leftchar, pads, out)
            ELSE IF quad_pos = 0
            THEN a2b_base64(text, i + 1, 1, c, 0, out)
            ELSE IF quad_pos = 1
            THEN a2b_base64(text, i + 1, 2, c % 16, 0, Append(out, leftchar * 4 + c \div 16))
            ELSE IF quad_pos = 2
            THEN a2b_base64(text, i + 1, 3, c % 4, 0, Append(out, leftchar * 16 + c \div 4))
            ELSE a2b_base64(text, i + 1, 0, 0, 0, Append(out, leftchar * 64 + c))

\* The text with a line feed after every `width` characters, as base64 wraps it.
RECURSIVE Wrapped(_, _)
Wrapped(text, width) ==
    IF Len(text) <= width THEN text \o <<Newline>>
    ELSE SubSeq(text, 1, width) \o <<Newline>> \o Wrapped(DropFirst(text, width), width)

\* What "cat {video_path} | base64 | tr -d '\\n'" can come back as, for a file of
\* the given bytes: the base64 text, bare, with a line feed or blanks around it,
\* or still wrapped; and the text cut short, inside its last group of four or
\* before it.
ReadBacks(bytes) ==
    LET text == b64encode(bytes)
    IN {text, text \o <<Newline>>, <<Blank>> \o text \o <<Blank, Newline>>, Wrapped(text, 4),
        SubSeq(text, 1, Len(text) - 1), SubSeq(text, 1, Len(text) - 4)}

\* The output of a sandbox command: which text it is, and its length in
\* characters. Take(text, k) is text[:k], its first k characters.
Text(name, len) == [name |-> name, len |-> len]
Take(text, k) == [name |-> text.name, len |-> Min(text.len, k)]

\* What "wc -l scene.py && head -5 scene.py" prints without a scene.py, and with
\* one whose first lines are short or long.
NoSceneOutput == Text("wc: scene.py: No such file or directory", 39)
SceneOutputs == {Text("wc head", 120), Text("wc head", 480)}
\* What the render command prints (2>&1) when it fails and when it succeeds.
RenderFailures == {Text("Traceback", 700), Text("Traceback", 1000), Text("Traceback", 4000)}
RenderSuccess == Text("File ready", 1500)

\* The program texts the code-generation model returns, as code points: "code",
\* all ASCII, and one with U+00E9 and U+2019 in it.
Programs == {<<99, 111, 100, 101>>, <<99, 233, 100, 8217, 101>>}
IsAscii(c) == c < 128
\* The projection with errors='replace': '?' (63) for each code point dropped.
AsciiReplace(code) == [i \in 1..Len(code) |-> IF IsAscii(code[i]) THEN code[i] ELSE 63]
\* manim_code.encode('ascii', errors='ignore').decode('ascii'): the code points
\* that are not ASCII are left out; an ASCII byte decodes to its code point.
AsciiProjection(code) == SelectSeq(code, IsAscii)
\* f"echo '{code_b64}' | base64 -d > scene.py", as the text it carries and the
\* file it names.
WriteCommand(code_b64) == [echo |-> code_b64, file |-> "scene.py"]
\* What the command leaves in the file: echo prints the text and a line feed,
\* base64 -d decodes it (an input it rejects leaves the file empty).
RunWrite(command) ==
    LET decoded == a2b_base64(command.echo \o <<Newline>>, 1, 0, 0, 0, <<>>)
    IN IF decoded = None THEN <<>> ELSE decoded[1]

\* The file path with one name for every video.
FilePathShared(video_id) == <<0, "mp4">>

\* f"{video_id}.mp4"
FilePath(video_id) == <<video_id, "mp4">>
\* supabase.storage.from_('videos').get_public_url(file_path)
PublicUrl(file_path) == <<"public", "videos", file_path>>
\* supabase.storage.from_('videos').upload(path, bytes, {content-type, x-upsert})
StorageUpload(b, file_path, video_bytes, options, at) ==
    IF file_path \in DOMAIN b /\ options.upsert # "true"
    THEN b
    ELSE [n \in DOMAIN b \cup {file_path} |->
            IF n = file_path
            THEN [created_at |-> at, bytes |-> video_bytes,
                  content_type |-> options.content_type]
            ELSE b[n]]

\* generate_video with its except block re-raising what it caught.
generate_video_except_reraise(g, e) ==
    [g EXCEPT !.pc = "raised", !.raised = Some(e)]

\* generate_video's except block: the failure becomes the result.
generate_video_except(g, e) ==
    [g EXCEPT !.pc = "returned",
              !.result = [video_id |-> g.video_id, status |-> "failed",
                          video_url |-> None, error |-> Some(e)]]

\* A failure inside generate_video's try block, raised by `stage`.
Fail(stage, e) ==
    gv' = [generate_video_except(gv, e) EXCEPT !.failed_at = stage, !.failure = Some(e)]

\* The same, for a failure raised when the locals are g.
FailFrom(g, stage, e) ==
    gv' = [generate_video_except(g, e) EXCEPT !.failed_at = stage, !.failure = Some(e)]

\* A failure outside any try block: it propagates to the route's caller.
Propagate(stage, e) ==
    gv' = [gv EXCEPT !.pc = "raised", !.raised = Some(e), !.failed_at = stage,
                     !.failure = Some(e)]

Call(c) == calls' = Append(calls, c)

VideoUnchanged ==
    UNCHANGED <<questions, now, va, delivered, answered, nq, cl, removes, settings, users,
                wh, px, sessions, cs, created, gu>>

\* POST /videos/generate arrives.
generate_video_endpoint(question_id) ==
    /\ gv.pc \in {"idle", "returned", "raised"}
    /\ gv.run < MaxRuns
    /\ gv' = [IdleRequest(gv.run + 1) EXCEPT !.pc = "load", !.question_id = question_id]
    /\ calls' = <<>>
    /\ UNCHANGED <<bucket, nextUuid, sandboxes>>
    /\ VideoUnchanged

\* generate_video_for_question: load the question (.single() raises when there is
\* no such row, and the store can fail), then enter generate_video, which draws
\* the video id before its try block.
generate_video_for_question ==
    /\ gv.pc = "load"
    /\ Call("select_question")
    /\ \/ /\ RowsById(gv.question_id) = {}
          /\ Propagate("load", Err("APIError", <<"no rows">>))
          /\ UNCHANGED nextUuid
       \/ /\ Propagate("load", Err("APIError", <<"store">>))
          /\ UNCHANGED nextUuid
       \/ \E i \in RowsById(gv.question_id) :
            /\ gv' = [gv EXCEPT !.pc = "explain", !.question = Some(questions[i].question),
                                !.video_id = nextUuid]
            /\ nextUuid' = nextUuid + 1
    /\ UNCHANGED <<bucket, sandboxes>>
    /\ VideoUnchanged

\* generate_explanation with a fallback: a response that cannot be parsed gives no
\* explanation, and the pipeline goes on.
generate_explanation_lenient ==
    /\ gv.pc = "explain"
    /\ Call("explain")
    /\ \/ Fail("explain", Err("CompletionFailure", <<"explain">>))
       \/ gv' = [gv EXCEPT !.pc = "codegen"]
       \/ gv' = [gv EXCEPT !.pc = "codegen",
                           !.explanation = Some(<<"explanation", gv.question[1]>>)]
    /\ UNCHANGED <<bucket, nextUuid, sandboxes>>
    /\ VideoUnchanged

\* What the explanation model answers: the object asked for, bare, in a code
\* fence, or after a line of commentary; an object without the field; a number.
ExplainResponses ==
    {<<"{", "explanation:", "v", "}">>,
     <<"fence", "json", "nl", "{", "explanation:", "v", "}", "nl", "fence">>,
     <<"p", "nl", "{", "explanation:", "v", "}">>,
     <<"{", "question:", "v", "}">>,
     <<"v">>}

\* generate_explanation: one completion call, then json.loads and ["explanation"].
generate_explanation ==
    /\ gv.pc = "explain"
    /\ Call("explain")
    /\ \/ Fail("explain", Err("CompletionFailure", <<"explain">>))
       \/ \E response \in ExplainResponses :
            LET parsed == generate_explanation_parse(response)
            IN IF parsed.kind = "ok"
               THEN gv' = [gv EXCEPT !.pc = "codegen", !.explanation = Some(parsed.value)]
               ELSE Fail("explain", Err(parsed.kind, parsed.value))
    /\ UNCHANGED <<bucket, nextUuid, sandboxes>>
    /\ VideoUnchanged

\* generate_manim_code: one completion call; the text is the program.
generate_manim_code ==
    /\ gv.pc = "codegen"
    /\ Call("codegen")
    /\ \/ Fail("codegen", Err("CompletionFailure", <<"codegen">>))
       \/ \E code \in Programs :
            gv' = [gv EXCEPT !.pc = "create", !.manim_code = Some(code)]
    /\ UNCHANGED <<bucket, nextUuid, sandboxes>>
    /\ VideoUnchanged

\* execute_manim_code, one step per call to the sandbox service. A call either
\* raises (the failure leaves execute_manim_code at once, to generate_video's
\* except block) or returns.
SandboxError(what) == Err("DaytonaError", <<what>>)

\* sandbox = daytona.create(params)
execute_manim_code_create ==
    /\ gv.pc = "create"
    /\ Call("create")
    /\ \/ /\ Fail("execute", SandboxError("create"))
          /\ UNCHANGED sandboxes
       \/ /\ sandboxes' = Append(sandboxes, FreshSandbox)
          /\ gv' = [gv EXCEPT !.pc = "write", !.sandbox = Len(sandboxes) + 1]
    /\ UNCHANGED <<bucket, nextUuid>>
    /\ VideoUnchanged

\* sandbox.process.exec(f"echo '{code_b64}' | base64 -d > scene.py"): the exit code
\* is not looked at, so a command that wrote nothing returns like one that wrote.
execute_manim_code_write ==
    LET code_safe == AsciiProjection(gv.manim_code[1])
        code_b64 == b64encode(code_safe)
        sent == [gv EXCEPT !.write_command = Some(WriteCommand(code_b64))]
    IN
    /\ gv.pc = "write"
    /\ Call("exec_write")
    /\ \/ /\ FailFrom(sent, "execute", SandboxError("write"))
          /\ UNCHANGED sandboxes
       \/ /\ sandboxes' = [sandboxes EXCEPT ![gv.sandbox].scene =
                              Some(RunWrite(WriteCommand(code_b64)))]
          /\ gv' = [sent EXCEPT !.pc = "verify"]
       \/ /\ gv' = [sent EXCEPT !.pc = "verify"]
          /\ UNCHANGED sandboxes
    /\ UNCHANGED <<bucket, nextUuid>>
    /\ VideoUnchanged

\* sandbox.process.exec("wc -l scene.py && head -5 scene.py")
execute_manim_code_verify ==
    /\ gv.pc = "verify"
    /\ Call("exec_verify")
    /\ \/ Fail("execute", SandboxError("verify"))
       \/ \E out \in (IF sandboxes[gv.sandbox].scene = None
                       THEN {NoSceneOutput} ELSE SceneOutputs) :
            gv' = [gv EXCEPT !.pc = "render", !.verify_result = Some(out)]
    /\ UNCHANGED <<bucket, nextUuid, sandboxes>>
    /\ VideoUnchanged

\* sandbox.process.exec("python3 -m manim -ql scene.py ExplanationScene 2>&1"):
\* with a scene.py the render produces the media file or fails; without, it fails.
execute_manim_code_render ==
    /\ gv.pc = "render"
    /\ Call("exec_render")
    /\ \/ /\ Fail("execute", SandboxError("render"))
          /\ UNCHANGED sandboxes
       \/ /\ sandboxes[gv.sandbox].scene # None
          /\ \E a \in Artifacts :
               sandboxes' = [sandboxes EXCEPT ![gv.sandbox].media = Some(a)]
          /\ gv' = [gv EXCEPT !.pc = "find", !.render_result = Some(RenderSuccess)]
       \/ /\ \E log \in RenderFailures :
               gv' = [gv EXCEPT !.pc = "find", !.render_result = Some(log)]
          /\ UNCHANGED sandboxes
    /\ UNCHANGED <<bucket, nextUuid>>
    /\ VideoUnchanged

\* The exception with the two outputs embedded whole.
VideoNotFoundWhole(verify_result, render_result) ==
    Err("Exception", <<"Video not found. Code verify: ", verify_result,
                       ". Render: ", render_result>>)

\* raise Exception(f"Video not found. Code verify: {verify_result.result[:200]}.
\*                   Render: {render_result.result[:1000]}")
VideoNotFound(verify_result, render_result) ==
    Err("Exception", <<"Video not found. Code verify: ", Take(verify_result, VerifyShown),
                       ". Render: ", Take(render_result, RenderShown)>>)

\* sandbox.process.exec("find media -name 'ExplanationScene.mp4' ..."), and the
\* `if not video_path: raise` that follows it.
execute_manim_code_find ==
    /\ gv.pc = "find"
    /\ Call("exec_find")
    /\ \/ Fail("execute", SandboxError("find"))
       \/ /\ sandboxes[gv.sandbox].media = None
          /\ FailFrom([gv EXCEPT !.video_path = Some(<<>>)], "execute",
                      VideoNotFound(gv.verify_result[1], gv.render_result[1]))
       \/ /\ sandboxes[gv.sandbox].media # None
          /\ gv' = [gv EXCEPT !.pc = "read",
                              !.video_path = Some(<<"media", "ExplanationScene.mp4">>)]
    /\ UNCHANGED <<bucket, nextUuid, sandboxes>>
    /\ VideoUnchanged

\* base64.b64decode(video_base64_clean)
b64decode(text) == a2b_base64(text, 1, 0, 0, 0, <<>>)

\* video_content_result = sandbox.process.exec(f"cat {video_path} | base64 | tr -d ..."),
\* video_base64 = video_content_result.result.strip(), the filter, and
\* video_bytes = base64.b64decode(video_base64_clean)
execute_manim_code_read ==
    /\ gv.pc = "read"
    /\ Call("exec_read")
    /\ \/ Fail("execute", SandboxError("read"))
       \/ \E result \in ReadBacks(sandboxes[gv.sandbox].media[1]) :
            LET video_base64 == StripBlanks(result)
                video_bytes == b64decode(Clean(video_base64))
                read == [gv EXCEPT !.video_content_result = Some(result),
                                   !.video_base64 = Some(video_base64)]
            IN IF video_bytes = None
               THEN FailFrom(read, "execute", Err("binascii.Error", <<"Incorrect padding">>))
               ELSE gv' = [read EXCEPT !.pc = "delete", !.video_bytes = video_bytes]
    /\ UNCHANGED <<bucket, nextUuid, sandboxes>>
    /\ VideoUnchanged

\* sandbox.delete(), then `return video_bytes, render_result.result`
execute_manim_code_delete ==
    /\ gv.pc = "delete"
    /\ Call("delete")
    /\ \/ /\ sandboxes' = [sandboxes EXCEPT ![gv.sandbox].deleteCalls = @ + 1,
                                           ![gv.sandbox].deleted = TRUE]
          /\ gv' = [gv EXCEPT !.pc = "upload"]
       \/ /\ sandboxes' = [sandboxes EXCEPT ![gv.sandbox].deleteCalls = @ + 1]
          /\ Fail("execute", SandboxError("delete"))
    /\ UNCHANGED <<bucket, nextUuid>>
    /\ VideoUnchanged

\* {'content-type': 'video/mp4', 'x-upsert': 'true'}
UploadOptions == [content_type |-> "video/mp4", upsert |-> "true"]

\* upload_to_supabase: the upload call (gv.uploaded: the path and options it gave)
upload_to_supabase_upload ==
    LET file_path == FilePath(gv.video_id)
        sent == [gv EXCEPT !.uploaded = Some([file_path |-> file_path,
                                              options |-> UploadOptions])]
    IN
    /\ gv.pc = "upload"
    /\ Call("upload")
    /\ \/ /\ FailFrom(sent, "publish", Err("StorageException", <<"upload">>))
          /\ UNCHANGED bucket
       \/ /\ bucket' = StorageUpload(bucket, file_path, gv.video_bytes[1], UploadOptions, now)
          /\ gv' = [sent EXCEPT !.pc = "url"]
    /\ UNCHANGED <<nextUuid, sandboxes>>
    /\ VideoUnchanged

\* generate_video returning the completed result without the URL in it.
generate_video_return_no_url(g, video_url) ==
    [g EXCEPT !.pc = "returned", !.video_url = Some(video_url),
              !.result = [video_id |-> g.video_id, status |-> "completed",
                          video_url |-> None, error |-> None]]

\* generate_video's `return` of the completed result.
generate_video_return(g, video_url) ==
    [g EXCEPT !.pc = "returned", !.video_url = Some(video_url),
              !.result = [video_id |-> g.video_id, status |-> "completed",
                          video_url |-> Some(video_url), error |-> None]]

\* upload_to_supabase: the public URL, and generate_video's return
upload_to_supabase_url ==
    /\ gv.pc = "url"
    /\ Call("get_public_url")
    /\ \/ Fail("publish", Err("StorageException", <<"get_public_url">>))
       \/ gv' = generate_video_return(gv, PublicUrl(FilePath(gv.video_id)))
    /\ UNCHANGED <<bucket, nextUuid, sandboxes>>
    /\ VideoUnchanged

\* The question ids a request can name: those stored, and one that is not.
RequestedIds == 1..(MaxStored + 1)

NextVideo ==
    \/ \E q \in RequestedIds : generate_video_endpoint(q)
    \/ generate_video_for_question
    \/ generate_explanation
    \/ generate_manim_code
    \/ execute_manim_code_create
    \/ execute_manim_code_write
    \/ execute_manim_code_verify
    \/ execute_manim_code_render
    \/ execute_manim_code_find
    \/ execute_manim_code_read
    \/ execute_manim_code_delete
    \/ upload_to_supabase_upload
    \/ upload_to_supabase_url

\* ============================================================== questions
\* services/questions.py: get_next_question and validate_user_answer.

\* The derivation with `if not difficulty` for `if difficulty is None`: a
\* difficulty of 0 counts as none given.
DifficultyFalsy(difficulty, question_count) ==
    IF difficulty = None \/ difficulty = Some(0)
    THEN Min(1 + question_count \div PerLevel, MaxDifficulty)
    ELSE Max(MinDifficulty, Min(MaxDifficulty, difficulty[1]))

\* difficulty = min(1 + question_count // 3, 10) when none is given,
\* max(1, min(10, difficulty)) otherwise.
Difficulty(difficulty, question_count) ==
    IF difficulty = None
    THEN Min(1 + question_count \div PerLevel, MaxDifficulty)
    ELSE Max(MinDifficulty, Min(MaxDifficulty, difficulty[1]))

\* previous_questions[:5]
FirstN(seq, n) == SubSeq(seq, 1, Min(n, Len(seq)))

\* supabase.table("questions").select("*").eq("session_id", session_id)
QuestionsOfSession(session_id) ==
    SelectSeq(questions, LAMBDA row : row.session_id = session_id)

\* The select gives no order(): the rows come in an order of the store's
\* choosing. Two of them: as inserted, and the reverse.
Reverse(seq) == [i \in 1..Len(seq) |-> seq[Len(seq) + 1 - i]]
StoreOrders(rows) == {rows, Reverse(rows)}

\* [q["question"] for q in all_questions.data]
QuestionTexts(rows) == [i \in 1..Len(rows) |-> rows[i].question]

\* The texts and topics question generation returns (topic may be absent).
GeneratedTexts == {0}
GeneratedTopics == {None, Some("Division")}

\* The state of the /questions/next route before any request.
NoNext ==
    [count |-> 0, session_id |-> "", difficulty_in |-> None, stored_before |-> 0,
     prompt |-> None, outcome |-> "none", raised |-> None,
     result |-> [question_id |-> 0, question |-> 0, topic |-> "", difficulty |-> 0]]

QuestionsUnchanged ==
    UNCHANGED <<bucket, now, gv, sandboxes, calls, cl, removes, settings, users,
                wh, px, sessions, cs, created, gu>>

\* get_next_question(session_id, difficulty): the whole handler. Each call to the
\* store or to the completion service can fail, and the failure propagates.
get_next_question(session_id, difficulty) ==
    \E all_questions \in StoreOrders(QuestionsOfSession(session_id)) :
    LET level == Difficulty(difficulty, Len(all_questions))
        previous_questions == QuestionTexts(all_questions)
        request == [nq EXCEPT !.count = @ + 1, !.session_id = session_id,
                              !.difficulty_in = difficulty,
                              !.stored_before = Len(all_questions),
                              !.prompt = None, !.outcome = "raised", !.raised = None,
                              !.result = NoNext.result]
        sent == [request EXCEPT !.prompt =
                    Some([difficulty |-> level,
                          previous_questions |-> FirstN(previous_questions, MaxPrevious)])]
    IN
    /\ nq.count < MaxNext
    /\ \/ /\ session_id # SessionId
          /\ nq' = [request EXCEPT !.raised = Some(Err("APIError", <<"no rows">>))]
          /\ UNCHANGED <<questions, nextUuid>>
       \/ /\ session_id = SessionId
          /\ \E e \in {Err("APIError", <<"store">>), Err("CompletionFailure", <<"question">>),
                       Err("JSONDecodeError", <<"question">>), Err("KeyError", <<"question">>)} :
               nq' = [(IF e.kind = "APIError" THEN request ELSE sent)
                         EXCEPT !.raised = Some(e)]
          /\ UNCHANGED <<questions, nextUuid>>
       \/ /\ session_id = SessionId
          /\ \E text \in GeneratedTexts, topic \in GeneratedTopics :
               LET row == [QuestionRow(nextUuid, text, level) EXCEPT
                              !.topic = IF topic = None THEN "Long Division" ELSE topic[1]]
               IN \/ /\ nq' = [sent EXCEPT !.raised = Some(Err("APIError", <<"insert">>))]
                     /\ UNCHANGED <<questions, nextUuid>>
                  \/ /\ questions' = Append(questions, row)
                     /\ nextUuid' = nextUuid + 1
                     /\ nq' = [sent EXCEPT !.outcome = "returned",
                                  !.result = [question_id |-> row.id, question |-> text,
                                              topic |-> row.topic, difficulty |-> level]]
    /\ UNCHANGED <<va, delivered, answered>>
    /\ QuestionsUnchanged

\* The table after n calls of get_next_question without a difficulty.
RECURSIVE SeedTable(_)
SeedTable(n) ==
    IF n = 0 THEN <<>>
    ELSE Append(SeedTable(n - 1), QuestionRow(n, n, Difficulty(None, n - 1)))

\* ---- validate_user_answer, in two steps: up to the model's verdict (the row is
\* read), and from the update on (the row is written). Concurrent requests
\* interleave between the two: the completion call that separates the read from
\* the write is the long one, and it touches no shared state.

\* What the answer-judging model returns once parsed: "correct" and "feedback",
\* either of which the object may lack.
Feedbacks == {"fb_a"}
Validations ==
    {v \in [correct : {None, Some(TRUE), Some(FALSE)},
            feedback : {None} \cup {Some(f) : f \in Feedbacks}] :
        v.correct # None \/ v.feedback # None}

\* What the hint model answers: the object asked for, bare or in a code fence;
\* prose; an object without the field; a number; the object after a line of
\* commentary.
HintResponses ==
    {<<"{", "hint:", "v", "}">>,
     <<"fence", "json", "nl", "{", "hint:", "w", "}", "nl", "fence">>,
     <<"p", "p">>,
     <<"{", "question:", "v", "}">>,
     <<"v">>,
     <<"p", "nl", "{", "hint:", "v", "}">>}

DefaultHint == <<"Try breaking down the problem into smaller steps.">>

\* generate_hint with its json.loads outside the try block: what it raises is
\* not caught (None stands for the exception).
generate_hint_strict(response) ==
    LET result == json_loads(StripFences(response))
    IN IF result = None THEN None
       ELSE IF ~IsObject(result[1]) THEN None
       ELSE IF Get(result[1], "hint:") = None THEN Some(DefaultHint)
       ELSE Some(Get(result[1], "hint:")[1])

\* generate_hint, from the response text on: the fence checks, then
\*   try: result = json.loads(text); return result.get("hint", default)
\*   except: return default
\* (a value that is no object has no get(): that too ends in the except).
generate_hint(response) ==
    LET result == json_loads(StripFences(response))
    IN IF result = None THEN Some(DefaultHint)
       ELSE IF ~IsObject(result[1]) THEN Some(DefaultHint)
       ELSE IF Get(result[1], "hint:") = None THEN Some(DefaultHint)
       ELSE Some(Get(result[1], "hint:")[1])

NoResponse ==
    [correct |-> FALSE, attempts |-> 0, feedback |-> <<>>, offer_video |-> FALSE,
     question |-> 0, topic |-> ""]

\* The locals of a request: the id asked for, the row read, the verdict, and
\* what the second step adds.
Locals(question_id, question_data, validation) ==
    [question_id |-> question_id, question_data |-> question_data,
     validation |-> validation, new_attempts |-> 0, hint_response |-> None, hint |-> None]

\* What the route answers: the verdict and the hint the request got from the
\* model, and its response or the exception it raised.
Answer(w, outcome, response, e) ==
    [outcome |-> outcome, question_id |-> w.question_id, validation |-> w.validation,
     hint_response |-> w.hint_response, hint |-> w.hint, response |-> response, raised |-> e]
NoAnswer == Answer(Locals(0, None, None), "none", NoResponse, None)

\* No call yet.
NoCalls ==
    [started |-> 0, returned |-> [q \in RequestedIds |-> 0],
     failed |-> [q \in RequestedIds |-> FALSE]]

\* The requests in flight on question q.
InFlight(q) == {w \in BagToSet(va) : w.question_id = q}

AnswersUnchanged ==
    UNCHANGED <<bucket, now, nextUuid, gv, sandboxes, calls, nq, cl, removes, settings, users,
                wh, px, sessions, cs, created, gu>>

\* The request with locals w fails: the exception propagates to the route's caller.
RaiseAnswer(w, e) ==
    /\ delivered' = Answer(w, "raised", NoResponse, Some(e))
    /\ answered' = [answered EXCEPT !.failed[w.question_id] = TRUE,
                                    !.started = @ + (IF BagIn(w, va) THEN 0 ELSE 1)]

\* POST /questions/validate arrives, and validate_user_answer runs up to the
\* verdict:
\*   result = supabase.table("questions").select("*").eq("id", question_id).single().execute()
\*   validation = openai_validate(question_data["question"], answer)
validate_user_answer_judge(question_id) ==
    /\ BagCardinality(va) < MaxWorkers
    /\ answered.started < MaxValidations
    /\ \/ /\ RowsById(question_id) = {}
          /\ RaiseAnswer(Locals(question_id, None, None), Err("APIError", <<"no rows">>))
          /\ UNCHANGED va
       \/ /\ RaiseAnswer(Locals(question_id, None, None), Err("APIError", <<"select">>))
          /\ UNCHANGED va
       \/ \E i \in RowsById(question_id) :
            \/ /\ RaiseAnswer(Locals(question_id, Some(questions[i]), None),
                              Err("CompletionFailure", <<"validate">>))
               /\ UNCHANGED va
            \/ \E v \in Validations :
                 /\ va' = va (+) SetToBag({Locals(question_id, Some(questions[i]), Some(v))})
                 /\ answered' = [answered EXCEPT !.started = @ + 1]
                 /\ UNCHANGED delivered
    /\ UNCHANGED questions
    /\ AnswersUnchanged

\* new_attempts = question_data["attempts"] + 1
NewAttempts(question_data) == question_data.attempts + 1

\* supabase.table("questions").update({"attempts": new_attempts}).eq("id", question_id)
UpdateAttempts(table, question_id, new_attempts) ==
    [i \in 1..Len(table) |->
        IF table[i].id = question_id
        THEN [table[i] EXCEPT !.attempts = new_attempts]
        ELSE table[i]]

\* The offer with > for >=: made from the fourth attempt on.
OfferVideoLate(correct, new_attempts) == ~correct /\ new_attempts > OfferAt

\* "offer_video": not validation["correct"] and new_attempts >= 3
OfferVideo(correct, new_attempts) == ~correct /\ new_attempts >= OfferAt

\* The feedback texts, as the pieces they are put together from.
GenericRetry == <<"Incorrect. Please try again.">>
HintFeedback(hint) == <<"Not quite right. Here's a hint: ", hint>>
WrongFeedback(feedback) == <<"That's not correct. ", feedback>>

\* The chain with its last two branches swapped: the model's feedback at the
\* second attempt, the hint from the third on.
FeedbackBranchHintLate(correct, new_attempts) ==
    IF correct THEN "verbatim"
    ELSE IF new_attempts = 1 THEN "retry"
    ELSE IF new_attempts = 2 THEN "wrong"
    ELSE "hint"

\* The branch the if/elif chain on (validation["correct"], new_attempts) takes.
FeedbackBranch(correct, new_attempts) ==
    IF correct THEN "verbatim"
    ELSE IF new_attempts = 1 THEN "retry"
    ELSE IF new_attempts = 2 THEN "hint"
    ELSE "wrong"

\* The response dict of validate_user_answer.
Response(w, feedback) ==
    [correct |-> w.validation[1].correct[1], attempts |-> w.new_attempts,
     feedback |-> feedback,
     offer_video |-> OfferVideo(w.validation[1].correct[1], w.new_attempts),
     question |-> w.question_data[1].question, topic |-> w.question_data[1].topic]

\* The request with locals w returns its response.
ReturnAnswer(w, feedback) ==
    /\ delivered' = Answer(w, "returned", Response(w, feedback), None)
    /\ answered' = [answered EXCEPT !.returned[w.question_id] = @ + 1]

\* validate_user_answer from the update on, for the request with locals r: the
\* row is written, the feedback is picked (with the generate_hint call of the
\* second wrong attempt), the response is returned.
validate_user_answer_update(r) ==
    LET v == r.validation[1]
        w == [r EXCEPT !.new_attempts = NewAttempts(r.question_data[1])]
        branch == FeedbackBranch(v.correct[1], w.new_attempts)
    IN
    /\ BagIn(r, va)
    /\ va' = va (-) SetToBag({r})
    /\ \/ /\ RaiseAnswer(r, Err("APIError", <<"update">>))
          /\ UNCHANGED questions
       \/ /\ questions' = UpdateAttempts(questions, w.question_id, w.new_attempts)
          /\ \/ /\ v.correct = None
                /\ RaiseAnswer(r, Err("KeyError", <<"correct">>))
             \/ /\ v.correct # None
                /\ branch \in {"verbatim", "wrong"}
                /\ v.feedback = None
                /\ RaiseAnswer(r, Err("KeyError", <<"feedback">>))
             \/ /\ v.correct # None
                /\ branch = "verbatim"
                /\ v.feedback # None
                /\ ReturnAnswer(w, <<v.feedback[1]>>)
             \/ /\ v.correct # None
                /\ branch = "retry"
                /\ ReturnAnswer(w, GenericRetry)
             \/ /\ v.correct # None
                /\ branch = "hint"
                /\ \/ RaiseAnswer(r, Err("CompletionFailure", <<"hint">>))
                   \/ \E text \in HintResponses :
                        LET hint == generate_hint(text)
                            asked == [w EXCEPT !.hint_response = Some(text)]
                        IN IF hint = None
                           THEN RaiseAnswer(asked, Err("JSONDecodeError", <<"hint">>))
                           ELSE ReturnAnswer([asked EXCEPT !.hint = hint],
                                             HintFeedback(hint[1]))
             \/ /\ v.correct # None
                /\ branch = "wrong"
                /\ v.feedback # None
                /\ ReturnAnswer(w, WrongFeedback(v.feedback[1]))
    /\ AnswersUnchanged

NextAnswers ==
    \/ \E q \in RequestedIds : validate_user_answer_judge(q)
    \/ \E r \in BagToSet(va) : validate_user_answer_update(r)

\* ================================================================ cleanup
\* services/video.py: cleanup_old_videos, behind POST /videos/cleanup.

IdleCleanup ==
    [pc |-> "idle", started_at |-> 0, cutoff_time |-> 0, videos |-> <<>>,
     result |-> [deleted |-> 0, files |-> <<>>], raised |-> None]

\* cutoff_time = datetime.now(timezone.utc) - timedelta(days=1)
CutoffTime(at) == at - Day

\* The filter with <= for <: a video created exactly a day ago counts as old.
IsOldInclusive(video, cutoff_time) == video.created_at <= cutoff_time

\* datetime.fromisoformat(video['created_at']...) < cutoff_time
IsOld(video, cutoff_time) == video.created_at < cutoff_time

\* supabase.storage.from_('videos').list(): the objects, by name.
RECURSIVE Listing(_, _)
Listing(b, names) ==
    IF names = {} THEN <<>>
    ELSE LET first == CHOOSE n \in names : \A m \in names : n[1] <= m[1]
         IN <<[name |-> first, created_at |-> b[first].created_at]>>
            \o Listing(b, names \ {first})

\* old_videos = [video['name'] for video in videos if ... < cutoff_time]
OldVideos(videos, cutoff_time) ==
    LET old == SelectSeq(videos, LAMBDA video : IsOld(video, cutoff_time))
    IN [i \in 1..Len(old) |-> old[i].name]

\* supabase.storage.from_('videos').remove(names)
StorageRemove(b, names) ==
    [n \in DOMAIN b \ {names[i] : i \in 1..Len(names)} |-> b[n]]

CleanupUnchanged ==
    UNCHANGED <<questions, gv, sandboxes, calls, va, delivered, answered, nq, settings, users,
                wh, px, sessions, cs, created, gu>>

\* cleanup_old_videos up to the listing: the cutoff time, then list().
cleanup_old_videos_list ==
    /\ cl.pc \in {"idle", "returned", "raised"}
    /\ removes' = <<>>
    /\ \/ cl' = [IdleCleanup EXCEPT !.pc = "raised", !.started_at = now,
                                    !.cutoff_time = CutoffTime(now),
                                    !.raised = Some(Err("StorageException", <<"list">>))]
       \/ cl' = [IdleCleanup EXCEPT !.pc = "listed", !.started_at = now,
                                    !.cutoff_time = CutoffTime(now),
                                    !.videos = Listing(bucket, DOMAIN bucket)]
    /\ UNCHANGED <<bucket, now, nextUuid>>
    /\ CleanupUnchanged

\* cleanup_old_videos from the filter on: one remove() call when there is
\* something to remove, and the return.
cleanup_old_videos_remove ==
    LET old_videos == OldVideos(cl.videos, cl.cutoff_time)
        returned == [cl EXCEPT !.pc = "returned",
                               !.result = [deleted |-> Len(old_videos), files |-> old_videos]]
    IN
    /\ cl.pc = "listed"
    /\ \/ /\ old_videos = <<>>
          /\ cl' = returned
          /\ UNCHANGED <<bucket, removes>>
       \/ /\ old_videos # <<>>
          /\ removes' = Append(removes, old_videos)
          /\ \/ /\ cl' = [cl EXCEPT !.pc = "raised",
                                    !.raised = Some(Err("StorageException", <<"remove">>))]
                /\ UNCHANGED bucket
             \/ /\ bucket' = StorageRemove(bucket, old_videos)
                /\ cl' = returned
    /\ UNCHANGED <<now, nextUuid>>
    /\ CleanupUnchanged

\* A /videos/generate request of another worker publishes its video
\* (upload_to_supabase's upload call).
video_published ==
    /\ Cardinality(DOMAIN bucket) < MaxVideos
    /\ nextUuid <= MaxVideos + 1
    /\ \E a \in Artifacts :
         bucket' = StorageUpload(bucket, FilePath(nextUuid), a,
                                 UploadOptions, now)
    /\ nextUuid' = nextUuid + 1
    /\ UNCHANGED <<now, cl, removes>>
    /\ CleanupUnchanged

\* An hour passes.
clock_tick ==
    /\ now < MaxTicks
    /\ now' = now + 1
    /\ UNCHANGED <<bucket, nextUuid, cl, removes>>
    /\ CleanupUnchanged

NextCleanup ==
    \/ cleanup_old_videos_list
    \/ cleanup_old_videos_remove
    \/ video_published
    \/ clock_tick

\* ================================================================ webhook
\* api.py: clerk_webhook, with services/webhook.py.

\* The settings of a deployment with the webhook secret set, and of one without
\* (clerk_webhook_secret: str = "").
Configured == [clerk_webhook_secret |-> "whsec_1"]
Unconfigured == [clerk_webhook_secret |-> ""]

NoUsers == [u \in {} |-> 0]

\* The three headers verify_webhook_signature asks for.
SvixHeaders == {"svix-id", "svix-timestamp", "svix-signature"}

\* The email_addresses lists and primary ids of the payloads.
EmailLists ==
    {<<>>,
     <<[id |-> "idn_1", email_address |-> "a@x"]>>,
     <<[id |-> "idn_1", email_address |-> "a@x"], [id |-> "idn_2", email_address |-> "b@x"]>>}
PrimaryIds == {None, Some("idn_2"), Some("idn_9")}

\* The bodies a request carries: text that is no JSON, a JSON object the payload
\* schema rejects (a required field is missing), and well-formed events.
EventTypes == {"user.created", "user.updated", "user.deleted", "session.created"}
WebhookUsers == {"user_1", "user_2"}
Body(json, schema_ok, type, id, email_addresses, primary_email_address_id) ==
    [json |-> json, schema_ok |-> schema_ok, type |-> type, id |-> id,
     email_addresses |-> email_addresses,
     primary_email_address_id |-> primary_email_address_id]
Bodies ==
    {Body(FALSE, FALSE, "", "", <<>>, None), Body(TRUE, FALSE, "user.created", "user_1", <<>>, None)}
    \cup {Body(TRUE, TRUE, t, u, l, p) :
             t \in EventTypes, u \in WebhookUsers, l \in EmailLists, p \in PrimaryIds}

\* An exception of the webhook route: its class, the status code when it is an
\* HTTPException (0 otherwise), and its detail or message.
Raised(kind, status_code, detail) ==
    [kind |-> kind, status_code |-> status_code, detail |-> detail]
NotRaised == Raised("none", 0, <<>>)

\* extract_primary_email: the address whose id is the primary one, else the first
\* address, else None.
extract_primary_email(user_data) ==
    LET email_addresses == user_data.email_addresses
        primary_email_id == user_data.primary_email_address_id
        matching == IF primary_email_id = None THEN <<>>
                    ELSE SelectSeq(email_addresses,
                                   LAMBDA email_obj : email_obj.id = primary_email_id[1])
    IN IF email_addresses = <<>> THEN None
       ELSE IF matching # <<>> THEN Some(matching[1].email_address)
       ELSE Some(email_addresses[1].email_address)

\* verify_webhook_signature: HTTPException(400) when a header is missing, when
\* wh.verify rejects the signature, or when the verified body is no JSON; the
\* parsed payload otherwise.
verify_webhook_signature(headers, signature_ok, body) ==
    IF ~(SvixHeaders \subseteq headers)
    THEN Raised("HTTPException", 400, <<"Missing required Svix headers">>)
    ELSE IF ~signature_ok
    THEN Raised("HTTPException", 400, <<"Webhook signature verification failed">>)
    ELSE IF ~body.json
    THEN Raised("HTTPException", 400, <<"Invalid JSON payload">>)
    ELSE NotRaised

\* The except block of clerk_webhook with a clause that lets an HTTPException
\* through as it is.
clerk_webhook_except_reraise(e) ==
    IF e.kind = "HTTPException"
    THEN [status_code |-> e.status_code, detail |-> e.detail]
    ELSE [status_code |-> 500, detail |-> <<"Webhook processing failed: ">> \o e.detail]

\* The except block of clerk_webhook: `except Exception as e` catches whatever
\* the try block raised, HTTPException included, and raises
\* HTTPException(status_code=500, detail=f"Webhook processing failed: {str(e)}").
clerk_webhook_except(e) ==
    [status_code |-> 500, detail |-> <<"Webhook processing failed: ">> \o e.detail]

\* The state of the route before any request.
NoWebhook ==
    [headers_ok |-> FALSE, signature_ok |-> FALSE, verified |-> FALSE, event |-> "",
     user_id |-> "", raised |-> NotRaised, mutation |-> "none",
     response |-> [status_code |-> 0, detail |-> <<>>]]

\* The row user.created inserts, and what user.updated and user.deleted write.
UserRecord(email) ==
    [email |-> email, subscription_tier |-> "free", subscription_status |-> "active"]

WebhookUnchanged ==
    UNCHANGED <<questions, bucket, now, nextUuid, gv, sandboxes, calls, va, delivered,
                answered, nq, cl, removes, settings, px, sessions, cs, created, gu>>

\* POST /webhooks/clerk: the whole handler. The request carries `headers`, a body,
\* and a signature that matches the body under the secret or does not.
clerk_webhook(headers, signature_ok, body) ==
    LET checked == settings.clerk_webhook_secret # ""
        verdict == IF checked THEN verify_webhook_signature(headers, signature_ok, body)
                   ELSE IF ~body.json
                   THEN Raised("JSONDecodeError", 0, <<"Expecting value">>)
                   ELSE NotRaised
        request == [NoWebhook EXCEPT !.headers_ok = SvixHeaders \subseteq headers,
                                     !.signature_ok = signature_ok,
                                     !.verified = checked /\ verdict = NotRaised]
        fails(r, e) == wh' = [r EXCEPT !.raised = e, !.response = clerk_webhook_except(e)]
        primary_email == extract_primary_email(body)
        handled == [request EXCEPT !.event = body.type, !.user_id = body.id]
        success == [status_code |-> 200, detail |-> <<"success", body.type, body.id>>]
    IN
    /\ \/ /\ verdict # NotRaised
          /\ fails(request, verdict)
          /\ UNCHANGED users
       \/ /\ verdict = NotRaised
          /\ ~body.schema_ok
          /\ fails(request, Raised("ValidationError", 0, <<"Field required">>))
          /\ UNCHANGED users
       \/ /\ verdict = NotRaised
          /\ body.schema_ok
          /\ body.type = "user.created"
          /\ \/ /\ fails([handled EXCEPT !.mutation = "insert"],
                          Raised("APIError", 0, <<"insert">>))
                /\ UNCHANGED users
             \/ /\ body.id \notin DOMAIN users
                /\ users' = [u \in DOMAIN users \cup {body.id} |->
                                IF u = body.id THEN UserRecord(primary_email) ELSE users[u]]
                /\ wh' = [handled EXCEPT !.mutation = "insert", !.response = success]
       \/ /\ verdict = NotRaised
          /\ body.schema_ok
          /\ body.type \in {"user.updated", "user.deleted"}
          /\ \/ /\ fails([handled EXCEPT !.mutation = "update"],
                          Raised("APIError", 0, <<"update">>))
                /\ UNCHANGED users
             \/ /\ users' = [u \in DOMAIN users |->
                                IF u # body.id THEN users[u]
                                ELSE IF body.type = "user.updated"
                                THEN [users[u] EXCEPT !.email = primary_email]
                                ELSE [users[u] EXCEPT !.subscription_status = "deleted"]]
                /\ wh' = [handled EXCEPT !.mutation = "update", !.response = success]
       \/ /\ verdict = NotRaised
          /\ body.schema_ok
          /\ body.type \notin {"user.created", "user.updated", "user.deleted"}
          /\ wh' = [handled EXCEPT !.response =
                       [status_code |-> 200, detail |-> <<"ignored", body.type>>]]
          /\ UNCHANGED users
    /\ WebhookUnchanged

NextWebhook ==
    \E headers \in SUBSET SvixHeaders, signature_ok \in BOOLEAN, body \in Bodies :
        clerk_webhook(headers, signature_ok, body)

\* =============================================================== sessions
\* api.py: create_session. The handler awaits nothing, so one process runs it
\* from start to end; the deployment serves requests from several processes,
\* and between the two store calls of one the calls of another can take place.

Processes == 1..MaxProcesses
SessionUsers == {"user_1", "user_2"}

\* A process that serves no request, and the table of them.
NoCreate ==
    [pc |-> "idle", user_id |-> "", session_id |-> 0, created_at |-> 0,
     raised |-> NotRaised, response |-> [status_code |-> 0, detail |-> <<>>]]
NoCreates == [p \in Processes |-> NoCreate]
NoneCreated == [u \in SessionUsers |-> None]

\* supabase.table("sessions").update({"is_active": False}).eq("user_id", user_id)
Deactivate(rows, user_id) ==
    [i \in 1..Len(rows) |->
        IF rows[i].user_id = user_id THEN [rows[i] EXCEPT !.is_active = FALSE] ELSE rows[i]]

\* The except block of create_session:
\* raise HTTPException(status_code=500, detail=f"Failed to create session: {str(e)}")
create_session_except(e) ==
    [status_code |-> 500, detail |-> <<"Failed to create session: ">> \o e.detail]

SessionsUnchanged ==
    UNCHANGED <<questions, bucket, gv, sandboxes, calls, va, delivered, answered, nq, cl,
                removes, settings, users, wh, px, gu>>

\* POST /sessions arrives at process p: session_id (the one given, or a uuid4;
\* either way an id no row has), user_id and created_at are set.
create_session(p, user_id) ==
    /\ cs[p].pc \in {"idle", "returned", "raised"}
    /\ nextUuid <= MaxCreates
    /\ cs' = [cs EXCEPT ![p] = [NoCreate EXCEPT !.pc = "update", !.user_id = user_id,
                                               !.session_id = nextUuid,
                                               !.created_at = now]]
    /\ nextUuid' = nextUuid + 1
    /\ UNCHANGED <<sessions, created, now>>
    /\ SessionsUnchanged

\* The update call: every session of the user is made inactive, or the store
\* raises and the except block answers 500.
create_session_update(p) ==
    /\ cs[p].pc = "update"
    /\ \/ /\ sessions' = Deactivate(sessions, cs[p].user_id)
          /\ cs' = [cs EXCEPT ![p].pc = "insert"]
       \/ /\ LET e == Raised("APIError", 0, <<"update">>)
             IN cs' = [cs EXCEPT ![p].pc = "raised", ![p].raised = e,
                                 ![p].response = create_session_except(e)]
          /\ UNCHANGED sessions
    /\ UNCHANGED <<created, nextUuid, now>>
    /\ SessionsUnchanged

\* The insert call and the return of the SessionResponse, or the store raises.
create_session_insert(p) ==
    /\ cs[p].pc = "insert"
    /\ \/ /\ sessions' = Append(sessions, [id |-> cs[p].session_id,
                                            user_id |-> cs[p].user_id,
                                            is_active |-> TRUE,
                                            created_at |-> cs[p].created_at])
          /\ cs' = [cs EXCEPT ![p].pc = "returned",
                              ![p].response =
                                  [status_code |-> 200,
                                   detail |-> <<cs[p].session_id, cs[p].user_id>>]]
          /\ created' = [created EXCEPT ![cs[p].user_id] = Some(cs[p].session_id)]
       \/ /\ LET e == Raised("APIError", 0, <<"insert">>)
             IN cs' = [cs EXCEPT ![p].pc = "raised", ![p].raised = e,
                                 ![p].response = create_session_except(e)]
          /\ UNCHANGED <<sessions, created>>
    /\ UNCHANGED <<nextUuid, now>>
    /\ SessionsUnchanged

NextSessions ==
    \/ \E p \in Processes, user_id \in SessionUsers : create_session(p, user_id)
    \/ \E p \in Processes : create_session_update(p)
    \/ \E p \in Processes : create_session_insert(p)

\* ================================================================== users
\* api.py: get_user.

\* get_user with an except block that lets an HTTPException through.
get_user_except_reraise(e) ==
    IF e.kind = "HTTPException"
    THEN [status_code |-> e.status_code, detail |-> e.detail]
    ELSE [status_code |-> 500, detail |-> <<"Failed to fetch user: ">> \o e.detail]

\* The except block of get_user: `except Exception as e` catches whatever the
\* try block raised, the HTTPException(404) included, and raises
\* HTTPException(status_code=500, detail=f"Failed to fetch user: {str(e)}").
get_user_except(e) ==
    [status_code |-> 500, detail |-> <<"Failed to fetch user: ">> \o e.detail]

\* The state of the route before any request.
NoGetUser ==
    [user_id |-> "", selected |-> "none", raised |-> NotRaised,
     response |-> [status_code |-> 0, detail |-> <<>>]]

UsersUnchanged ==
    UNCHANGED <<questions, bucket, now, nextUuid, gv, sandboxes, calls, va, delivered,
                answered, nq, cl, removes, settings, users, wh, px, sessions, cs, created>>

\* GET /users/{user_id}: the whole handler. The select raises, returns no row
\* (the handler raises HTTPException(404) inside its try block) or returns the
\* user's row.
get_user(user_id) ==
    LET request == [NoGetUser EXCEPT !.user_id = user_id]
        fails(selected, e) ==
            gu' = [request EXCEPT !.selected = selected, !.raised = e,
                                  !.response = get_user_except(e)]
    IN
    /\ \/ fails("failed", Raised("APIError", 0, <<"select">>))
       \/ /\ user_id \notin DOMAIN users
          /\ fails("no row", Raised("HTTPException", 404, <<"User ", user_id, " not found">>))
       \/ /\ user_id \in DOMAIN users
          /\ gu' = [request EXCEPT !.selected = "row",
                                   !.response = [status_code |-> 200,
                                                 detail |-> <<"user", user_id>>]]
    /\ UsersUnchanged

\* ========================================================= specifications

EmptyBucket == [n \in {} |-> 0]

\* The video pipeline and the answer validation start with MaxStored questions
\* stored, none attempted, and an empty bucket.
InitStored ==
    /\ questions = SeedTable(MaxStored)
    /\ bucket = EmptyBucket
    /\ now = 0
    /\ nextUuid = MaxStored + 1
    /\ gv = IdleRequest(0)
    /\ sandboxes = <<>>
    /\ calls = <<>>
    /\ va = EmptyBag
    /\ delivered = NoAnswer
    /\ answered = NoCalls
    /\ nq = NoNext
    /\ cl = IdleCleanup
    /\ removes = <<>>
    /\ settings = Configured
    /\ users = NoUsers
    /\ wh = NoWebhook
    /\ sessions = <<>>
    /\ cs = NoCreates
    /\ created = NoneCreated
    /\ gu = NoGetUser
    /\ px = NoParse

SpecVideo == InitStored /\ [][NextVideo]_vars

SpecAnswers == InitStored /\ [][NextAnswers]_vars

\* /questions/next is called on a session that holds 0..MaxSeed questions.
InitQuestions ==
    /\ \E n \in 0..MaxSeed :
         /\ questions = SeedTable(n)
         /\ nextUuid = n + 1
    /\ bucket = EmptyBucket
    /\ now = 0
    /\ gv = IdleRequest(0)
    /\ sandboxes = <<>>
    /\ calls = <<>>
    /\ va = EmptyBag
    /\ delivered = NoAnswer
    /\ answered = NoCalls
    /\ nq = NoNext
    /\ cl = IdleCleanup
    /\ removes = <<>>
    /\ settings = Configured
    /\ users = NoUsers
    /\ wh = NoWebhook
    /\ sessions = <<>>
    /\ cs = NoCreates
    /\ created = NoneCreated
    /\ gu = NoGetUser
    /\ px = NoParse

\* The difficulty a request gives: none, or one below, inside or above [1, 10].
DifficultyInputs == {None} \cup {Some(d) : d \in {-1, 0, 1, 5, 10, 11}}

NextQuestions ==
    \E s \in {SessionId, UnknownSessionId}, d \in DifficultyInputs : get_next_question(s, d)

SpecQuestions == InitQuestions /\ [][NextQuestions]_vars

\* The ages, in hours, of the videos the bucket holds when the sweep is called:
\* two days, an hour more than a day, a day, an hour less than a day.
SampleAges == {2 * Day, Day + 1, Day, Day - 1}

InitCleanup ==
    /\ \E names \in SUBSET {FilePath(i) : i \in 1..MaxVideos} :
         \E age \in [names -> SampleAges] :
           bucket = [n \in names |->
                       [created_at |-> 0 - age[n], bytes |-> <<77, 0, 255>>,
                        content_type |-> "video/mp4"]]
    /\ questions = <<>>
    /\ now = 0
    /\ nextUuid = MaxVideos + 1
    /\ gv = IdleRequest(0)
    /\ sandboxes = <<>>
    /\ calls = <<>>
    /\ va = EmptyBag
    /\ delivered = NoAnswer
    /\ answered = NoCalls
    /\ nq = NoNext
    /\ cl = IdleCleanup
    /\ removes = <<>>
    /\ settings = Configured
    /\ users = NoUsers
    /\ wh = NoWebhook
    /\ sessions = <<>>
    /\ cs = NoCreates
    /\ created = NoneCreated
    /\ gu = NoGetUser
    /\ px = NoParse

SpecCleanup == InitCleanup /\ [][NextCleanup]_vars

\* The values a byte of an output file takes here, and the files: every sequence
\* of at most MaxBytes of them.
ByteValues == {0, 77, 255}
Files == UNION {[1..n -> ByteValues] : n \in 0..MaxBytes}

\* execute_manim_code has found the output file in its sandbox: the state of a
\* first request after the find command returned the path, for each file.
InitFound ==
    /\ questions = SeedTable(MaxStored)
    /\ bucket = EmptyBucket
    /\ now = 0
    /\ nextUuid = MaxStored + 2
    /\ \E file \in Files, verify_result \in SceneOutputs :
         /\ sandboxes = <<[FreshSandbox EXCEPT !.scene = Some(<<99, 111, 100, 101>>),
                                               !.media = Some(file)]>>
         /\ gv = [IdleRequest(1) EXCEPT
                    !.pc = "read", !.question_id = 1,
                    !.question = Some(questions[1].question),
                    !.video_id = MaxStored + 1,
                    !.explanation =
                        Some(generate_explanation_parse(<<"{", "explanation:", "v", "}">>).value),
                    !.manim_code = Some(<<99, 111, 100, 101>>),
                    !.write_command = Some(WriteCommand(b64encode(<<99, 111, 100, 101>>))),
                    !.sandbox = 1,
                    !.verify_result = Some(verify_result),
                    !.render_result = Some(RenderSuccess),
                    !.video_path = Some(<<"media", "ExplanationScene.mp4">>)]
    /\ calls = <<"select_question", "explain", "codegen", "create", "exec_write",
                 "exec_verify", "exec_render", "exec_find">>
    /\ va = EmptyBag
    /\ delivered = NoAnswer
    /\ answered = NoCalls
    /\ nq = NoNext
    /\ cl = IdleCleanup
    /\ removes = <<>>
    /\ settings = Configured
    /\ users = NoUsers
    /\ wh = NoWebhook
    /\ sessions = <<>>
    /\ cs = NoCreates
    /\ created = NoneCreated
    /\ gu = NoGetUser
    /\ px = NoParse

NextArtifact ==
    \/ execute_manim_code_read
    \/ execute_manim_code_delete
    \/ upload_to_supabase_upload
    \/ upload_to_supabase_url

SpecArtifact == InitFound /\ [][NextArtifact]_vars

\* A response has come back from the completion service.
InitParser ==
    /\ \/ \E object \in Objects, before \in Befores, after \in Afters :
            \E fenced \in Fenced(object) :
              px = Received(Some(SelectSeq(object, LAMBDA c : ~IsSpace(c))),
                            before \o fenced \o after)
       \/ \E response \in WithoutObject : px = Received(None, response)
    /\ settings = Configured
    /\ users = NoUsers
    /\ wh = NoWebhook
    /\ sessions = <<>>
    /\ cs = NoCreates
    /\ created = NoneCreated
    /\ gu = NoGetUser
    /\ questions = <<>>
    /\ bucket = EmptyBucket
    /\ now = 0
    /\ nextUuid = 1
    /\ gv = IdleRequest(0)
    /\ sandboxes = <<>>
    /\ calls = <<>>
    /\ va = EmptyBag
    /\ delivered = NoAnswer
    /\ answered = NoCalls
    /\ nq = NoNext
    /\ cl = IdleCleanup
    /\ removes = <<>>

SpecParser == InitParser /\ [][NextParser]_vars

\* The webhook route of a deployment with a secret, and of one without.
InitWebhook ==
    /\ settings \in {Configured, Unconfigured}
    /\ users = NoUsers
    /\ wh = NoWebhook
    /\ sessions = <<>>
    /\ cs = NoCreates
    /\ created = NoneCreated
    /\ gu = NoGetUser
    /\ px = NoParse
    /\ questions = <<>>
    /\ bucket = EmptyBucket
    /\ now = 0
    /\ nextUuid = 1
    /\ gv = IdleRequest(0)
    /\ sandboxes = <<>>
    /\ calls = <<>>
    /\ va = EmptyBag
    /\ delivered = NoAnswer
    /\ answered = NoCalls
    /\ nq = NoNext
    /\ cl = IdleCleanup
    /\ removes = <<>>

SpecWebhook == InitWebhook /\ [][NextWebhook]_vars

\* The users tables the webhook events leave: for each user of the events no
\* row, or a row with one of the primary emails, active or marked deleted.
UserRows ==
    {[UserRecord(email) EXCEPT !.subscription_status = status] :
        email \in {None, Some("a@x"), Some("b@x")}, status \in {"active", "deleted"}}
UsersTables == UNION {[ids -> UserRows] : ids \in SUBSET WebhookUsers}

\* GET /users/{user_id} is asked on each of these tables, for the users of the
\* events and for one no event names.
InitUsers ==
    /\ users \in UsersTables
    /\ gu = NoGetUser
    /\ settings = Configured
    /\ wh = NoWebhook
    /\ sessions = <<>>
    /\ cs = NoCreates
    /\ created = NoneCreated
    /\ px = NoParse
    /\ questions = <<>>
    /\ bucket = EmptyBucket
    /\ now = 0
    /\ nextUuid = 1
    /\ gv = IdleRequest(0)
    /\ sandboxes = <<>>
    /\ calls = <<>>
    /\ va = EmptyBag
    /\ delivered = NoAnswer
    /\ answered = NoCalls
    /\ nq = NoNext
    /\ cl = IdleCleanup
    /\ removes = <<>>

NextUsers == \E user_id \in WebhookUsers \cup {"user_9"} : get_user(user_id)

SpecUsers == InitUsers /\ [][NextUsers]_vars

\* POST /sessions on an empty sessions table.
InitSessions ==
    /\ sessions = <<>>
    /\ cs = NoCreates
    /\ created = NoneCreated
    /\ nextUuid = 1
    /\ now = 0
    /\ questions = <<>>
    /\ bucket = EmptyBucket
    /\ gv = IdleRequest(0)
    /\ sandboxes = <<>>
    /\ calls = <<>>
    /\ va = EmptyBag
    /\ delivered = NoAnswer
    /\ answered = NoCalls
    /\ nq = NoNext
    /\ cl = IdleCleanup
    /\ removes = <<>>
    /\ settings = Configured
    /\ users = NoUsers
    /\ wh = NoWebhook
    /\ px = NoParse
    /\ gu = NoGetUser

SpecSessions == InitSessions /\ [][NextSessions]_vars

\* ================================================================= claims

\* ---- C1
\* The sandbox of a /videos/generate request that has ended.
EndedWithSandbox == gv.pc \in {"returned", "raised"} /\ gv.sandbox # 0

\* C1: in every run of execute_manim_code in which the sandbox was created,
\* sandbox.delete() has been called exactly once when the run has returned or
\* raised, whichever way it ended.
C1_DeleteOnEveryExit ==
    EndedWithSandbox => sandboxes[gv.sandbox].deleteCalls = 1

\* ---- C2
PipelineStages == {"explain", "codegen", "execute", "publish"}

\* C2: generate_video never raises: when one of its stages (explain, codegen,
\* execute, publish) raised, the request has returned a result with status
\* 'failed', video_url null and error the message of what was raised.
C2_FailureBecomesResult ==
    gv.failed_at \in PipelineStages =>
        /\ gv.pc = "returned"
        /\ gv.raised = None
        /\ gv.result = [video_id |-> gv.video_id, status |-> "failed",
                        video_url |-> None, error |-> gv.failure]

\* A failure of the last stage, after the upload, has become a 'failed' result.
C2_Witness ==
    /\ gv.failed_at = "publish"
    /\ gv.pc = "returned"
    /\ gv.result.status = "failed"
    /\ "get_public_url" \in {calls[i] : i \in 1..Len(calls)}

\* ---- C3
\* The external calls of one run, in the order of the code.
Pipeline ==
    <<"select_question", "explain", "codegen", "create", "exec_write", "exec_verify",
      "exec_render", "exec_find", "exec_read", "delete", "upload", "get_public_url">>

\* The stage a call belongs to: 0 loading the question, 1 explain, 2 codegen,
\* 3 execute, 4 publish.
StageOf(c) ==
    CASE c = "select_question" -> 0
      [] c = "explain" -> 1
      [] c = "codegen" -> 2
      [] c \in {"create", "exec_write", "exec_verify", "exec_render", "exec_find",
                "exec_read", "delete"} -> 3
      [] c \in {"upload", "get_public_url"} -> 4

StageNumber(stage) ==
    CASE stage = "load" -> 0
      [] stage = "explain" -> 1
      [] stage = "codegen" -> 2
      [] stage = "execute" -> 3
      [] stage = "publish" -> 4
      [] OTHER -> 5

Called(c) == c \in {calls[i] : i \in 1..Len(calls)}

\* C3: within one run the calls are made in the order explain, codegen, execute,
\* publish, each at most once: the code-generation call only after the
\* explanation was parsed, the sandbox creation only after code generation
\* returned, the upload only after execute returned an artifact; and after a
\* failure in a stage no call of a later stage is made.
C3_StagesInOrder ==
    /\ Len(calls) <= Len(Pipeline)
    /\ calls = SubSeq(Pipeline, 1, Len(calls))
    /\ Called("codegen") => gv.explanation # None
    /\ Called("create") => gv.manim_code # None
    /\ Called("upload") =>
         /\ gv.video_bytes # None
         /\ Called("delete")
         /\ gv.failed_at # "execute"
    /\ \A i \in 1..Len(calls) : StageOf(calls[i]) <= StageNumber(gv.failed_at)

\* A run that made every call of the four stages and completed.
C3_Witness ==
    /\ calls = Pipeline
    /\ gv.result.status = "completed"

\* ---- C4
\* C4: every result generate_video returns has status completed or failed,
\* video_url non-null exactly when completed and error non-null exactly when
\* failed.
C4_ResultShape ==
    gv.pc = "returned" =>
        /\ gv.result.status \in {"completed", "failed"}
        /\ (gv.result.video_url # None) <=> (gv.result.status = "completed")
        /\ (gv.result.error # None) <=> (gv.result.status = "failed")

\* A completed result, with its URL, after an earlier run returned a failed one.
C4_Witness ==
    /\ gv.pc = "returned"
    /\ gv.result.status = "completed"
    /\ gv.result.video_url # None
    /\ gv.run = 2

\* ---- C10
\* C10: the /videos/generate route always returns a VideoResult and never raises
\* to its caller, whatever session and question ids it is given.
C10_RouteNeverRaises ==
    /\ gv.pc # "raised"
    /\ gv.raised = None

\* ---- C5
\* C5: in every response of validate_user_answer, offer_video is true exactly
\* when the answer was judged wrong and the attempt count, counting this attempt,
\* has reached 3; it is false on the first and second attempt and for every
\* correct answer.
C5_OfferVideo ==
    delivered.outcome = "returned" =>
        LET judged_wrong == delivered.validation[1].correct = Some(FALSE)
            r == delivered.response
        IN /\ r.offer_video <=> (judged_wrong /\ r.attempts >= 3)
           /\ r.attempts \in {1, 2} => ~r.offer_video
           /\ ~judged_wrong => ~r.offer_video
           /\ r.correct <=> ~judged_wrong

\* A third wrong answer: the video is offered.
C5_Witness ==
    /\ delivered.outcome = "returned"
    /\ delivered.validation[1].correct = Some(FALSE)
    /\ delivered.response.attempts = 3
    /\ delivered.response.offer_video

\* ---- C6
\* C6: the feedback of a response follows the escalation policy on (correct,
\* attempt number after the increment): wrong at attempt 1, the fixed retry
\* message and no hint call; wrong at attempt 2, the hint lead-in followed by the
\* hint generate_hint returned; wrong at attempt 3 or later, the lead-in followed
\* by the model's feedback; correct, the model's feedback as it is.
C6_FeedbackPolicy ==
    delivered.outcome = "returned" =>
        LET v == delivered.validation[1]
            r == delivered.response
        IN /\ r.attempts >= 1
           /\ v.correct = Some(TRUE) =>
                r.feedback = <<v.feedback[1]>> /\ delivered.hint = None
           /\ (v.correct = Some(FALSE) /\ r.attempts = 1) =>
                r.feedback = <<"Incorrect. Please try again.">> /\ delivered.hint = None
           /\ (v.correct = Some(FALSE) /\ r.attempts = 2) =>
                /\ delivered.hint # None
                /\ r.feedback = <<"Not quite right. Here's a hint: ", delivered.hint[1]>>
           /\ (v.correct = Some(FALSE) /\ r.attempts >= 3) =>
                r.feedback = <<"That's not correct. ", v.feedback[1]>> /\ delivered.hint = None

\* A fourth wrong answer: the model's feedback after the lead-in.
C6_Witness ==
    /\ delivered.outcome = "returned"
    /\ delivered.validation[1].correct = Some(FALSE)
    /\ delivered.response.attempts = 4
    /\ delivered.response.feedback = <<"That's not correct. ", "fb_a">>

\* ---- C7
\* C7: every call of validate_user_answer that completes increments the persisted
\* attempt counter by one: on a question created with 0 attempts, none of whose
\* calls failed and none of whose calls is in flight, the persisted count is the
\* number n of completed calls, and the call that completed last returned n,
\* also when the calls were concurrent.
C7_CounterCountsCalls ==
    \A i \in 1..Len(questions) :
        LET q == questions[i].id
        IN (InFlight(q) = {} /\ ~answered.failed[q]) =>
              /\ questions[i].attempts = answered.returned[q]
              /\ (delivered.outcome = "returned" /\ delivered.question_id = q) =>
                    delivered.response.attempts = answered.returned[q]

\* ---- C8
\* C8: get_next_question gives, with no difficulty and n questions stored for the
\* session, the difficulty 1 + floor(n / 3) capped at 10 (n in 3(d-1)..3(d-1)+2
\* gives d < 10, n >= 27 gives 10); with a difficulty x, x clamped into [1, 10];
\* and the difficulty returned is the one stored with the new question.
C8_Difficulty ==
    nq.outcome = "returned" =>
        LET d == nq.result.difficulty
            n == nq.stored_before
            stored == {i \in 1..Len(questions) : questions[i].id = nq.result.question_id}
        IN /\ d \in 1..10
           /\ nq.difficulty_in = None =>
                \/ d = 10 /\ n >= 27
                \/ d < 10 /\ 3 * (d - 1) <= n /\ n <= 3 * (d - 1) + 2
           /\ nq.difficulty_in # None =>
                LET x == nq.difficulty_in[1]
                IN /\ x < 1 => d = 1
                   /\ x > 10 => d = 10
                   /\ x \in 1..10 => d = x
           /\ Cardinality(stored) = 1
           /\ \A i \in stored : questions[i].difficulty = d /\ questions[i].attempts = 0

\* After a request with a difficulty of 10 or more on 26 stored questions (stored with 10), a
\* request with no difficulty on the 27 questions gets 10.
C8_Witness ==
    /\ nq.outcome = "returned"
    /\ nq.count = 2
    /\ nq.difficulty_in = None
    /\ nq.stored_before = 27
    /\ nq.result.difficulty = 10
    /\ questions[27].difficulty = 10
    /\ questions[26].difficulty = 9

\* ---- C9
\* The videos the sweep was given by list(), and those of them created more than
\* a day before the sweep started.
Listed == {cl.videos[i] : i \in 1..Len(cl.videos)}
ListedOld == {v \in Listed : cl.started_at - v.created_at > 24}

\* C9: cleanup_old_videos removes exactly the listed videos created more than one
\* day before it started and leaves the others in place, with one remove() call
\* for all of them (none when there is nothing to remove), and returns their
\* number as deleted and their names as files.
C9_CleanupExact ==
    cl.pc = "returned" =>
        LET files == cl.result.files
        IN /\ {files[i] : i \in 1..Len(files)} = {v.name : v \in ListedOld}
           /\ Len(files) = Cardinality(ListedOld)
           /\ cl.result.deleted = Cardinality(ListedOld)
           /\ removes = IF ListedOld = {} THEN <<>> ELSE <<files>>
           /\ \A v \in ListedOld : v.name \notin DOMAIN bucket
           /\ \A v \in Listed \ ListedOld :
                /\ v.name \in DOMAIN bucket
                /\ bucket[v.name].created_at = v.created_at

\* Videos aged 25 hours, 23 hours and 2 days: the first and the last are removed.
C9_Witness ==
    /\ cl.pc = "returned"
    /\ {cl.started_at - v.created_at : v \in Listed} = {25, 23, 48}
    /\ Cardinality(Listed) = 3
    /\ cl.result.deleted = 2
    /\ {bucket[n].created_at : n \in DOMAIN bucket} = {cl.started_at - 23}

\* ---- C11
\* C11: with a webhook secret configured, a request to /webhooks/clerk whose Svix
\* headers are not all there, or whose signature is rejected, is answered with a
\* 4xx status, not a 5xx one.
C11_SignatureFailureIs4xx ==
    (settings.clerk_webhook_secret # "" /\ wh.response.status_code # 0
       /\ (~wh.headers_ok \/ ~wh.signature_ok)) =>
        wh.response.status_code \in 400..499

\* ---- C12
\* C12: a failure of sandbox.delete() does not change the result: a run in which
\* explain, codegen, the sandbox commands and the decoding succeeded (so that the
\* delete call was made) and in which the publish stage did not fail has
\* uploaded the artifact and returned status 'completed' with the video URL,
\* whether the delete call succeeded or not.
C12_TeardownFailureIgnored ==
    (gv.pc = "returned" /\ Called("delete") /\ gv.failed_at # "publish") =>
        /\ Called("upload")
        /\ gv.result.status = "completed"
        /\ gv.result.video_url # None

\* ---- C13
\* C13: when the search for the output file finds nothing, execute_manim_code
\* fails without reading back or decoding anything, with a message that carries
\* the verification snippet and the leading part of the render log, at most 1000
\* characters of it, and generate_video returns status 'failed', video_url null
\* and that message as error.
C13_NotFoundMessage ==
    (gv.pc = "returned" /\ gv.video_path = Some(<<>>)) =>
        LET message == gv.result.error[1].detail
            verify == gv.verify_result[1]
            render == gv.render_result[1]
        IN /\ ~Called("exec_read")
           /\ gv.video_base64 = None /\ gv.video_bytes = None
           /\ gv.result.status = "failed"
           /\ gv.result.video_url = None
           /\ Len(message) = 4
           /\ message[1] = "Video not found. Code verify: "
           /\ message[2].name = verify.name
           /\ message[2].len = (IF verify.len <= 200 THEN verify.len ELSE 200)
           /\ message[4].name = render.name
           /\ message[4].len = (IF render.len <= 1000 THEN render.len ELSE 1000)
           /\ message[4].len <= 1000

\* A render that failed with a log of 4000 characters on a long scene.py: the
\* error carries 200 characters of the verification and 1000 of the log.
C13_Witness ==
    /\ gv.pc = "returned"
    /\ gv.video_path = Some(<<>>)
    /\ gv.render_result[1].len = 4000
    /\ gv.verify_result[1].len = 480
    /\ gv.result.error[1].detail[4].len = 1000
    /\ gv.result.error[1].detail[2].len = 200

\* ---- C14
\* C14: a run whose four stages succeed returns status 'completed', error null
\* and the public URL of the object it uploaded; the object was uploaded under
\* the video_id the result reports, an id no stored object had before, with
\* content type video/mp4 and the overwrite flag, and its bytes are the artifact
\* the execute stage returned.
C14_CompletedResult ==
    /\ gv.pc \in {"explain", "codegen", "create", "write", "verify", "render", "find",
                  "read", "delete", "upload"} =>
           <<gv.video_id, "mp4">> \notin DOMAIN bucket
    /\ gv.result.status = "completed" =>
           LET name == <<gv.result.video_id, "mp4">>
           IN /\ gv.result.error = None
              /\ gv.result.video_id = gv.video_id
              /\ gv.result.video_url = Some(<<"public", "videos", name>>)
              /\ gv.uploaded =
                   Some([file_path |-> name,
                         options |-> [content_type |-> "video/mp4", upsert |-> "true"]])
              /\ name \in DOMAIN bucket
              /\ bucket[name].content_type = "video/mp4"
              /\ gv.video_bytes # None
              /\ bucket[name].bytes = gv.video_bytes[1]

\* The second completed run: its object is stored next to the first run's.
C14_Witness ==
    /\ gv.result.status = "completed"
    /\ gv.run = 2
    /\ Cardinality(DOMAIN bucket) = 2
    /\ gv.result.video_url = Some(PublicUrl(FilePath(gv.video_id)))

\* ---- C15
\* C15: the previous questions get_next_question sends to question generation
\* are the session's most recently created ones, at most 5: all of them when the
\* session holds 5 or fewer, the 5 created last when it holds more.
C15_MostRecentFive ==
    nq.prompt # None =>
        LET n == nq.stored_before
            sent == nq.prompt[1].previous_questions
            recent == {i \in 1..n : i > n - 5}
        IN /\ Len(sent) = Cardinality(recent)
           /\ {sent[i] : i \in 1..Len(sent)} = {questions[i].question : i \in recent}

\* ---- C16
\* C16: for a response built around a JSON object, with any prose before it,
\* after it or both, in a code fence or not, the recovery of question generation
\* and answer validation returns that object.
C16_RecoversEmbeddedObject ==
    (px.embedded # None /\ px.pc \in {"returned", "raised"}) =>
        /\ px.pc = "returned"
        /\ px.result = px.embedded

\* ---- C17
\* C17: for a response without any JSON object, the recovery returns nothing and
\* raises the error of the direct parse; and in every run the strategies are
\* tried in the order direct parse, line suffixes, brace matching, each only
\* after the ones before it failed.
C17_NoObjectRaises ==
    /\ \E k \in 0..3 : px.tried = SubSeq(<<"direct", "lines", "braces">>, 1, k)
    /\ px.pc = "returned" =>
         /\ px.tried # <<>>
         /\ px.raised = None
    /\ (px.embedded = None /\ px.pc \in {"returned", "raised"}) =>
         /\ px.pc = "raised"
         /\ px.result = None
         /\ px.tried = <<"direct", "lines", "braces">>
         /\ px.raised = Some([kind |-> "JSONDecodeError", detail |-> <<"direct">>])

\* ---- C18
\* C18: generate_explanation accepts every response the recovery of question
\* generation accepts: when the recovery returns an object with an explanation
\* field, generate_explanation, given the same response, returns that field.
C18_ExplanationUsesRecovery ==
    (/\ px.pc = "returned"
     /\ IsObject(px.result[1])
     /\ Get(px.result[1], "explanation:") # None
     /\ px.explained # None) =>
        /\ px.explained[1].kind = "ok"
        /\ px.explained[1].value = Get(px.result[1], "explanation:")[1]

\* ---- C19
\* C19: generate_hint does not fail on what the model answers: a wrong second
\* attempt for which the hint model answered returns a response whose feedback
\* is the hint lead-in followed by a hint, and that hint is the fixed default
\* string whenever the text (fences taken off) is not a JSON object or is an
\* object without a hint field.
C19_HintFallsBack ==
    delivered.hint_response # None =>
        LET text == delivered.hint_response[1]
            value == json_loads(StripFences(text))
            usable == /\ value # None
                      /\ value[1][1] = "{"
                      /\ Get(value[1], "hint:") # None
        IN /\ delivered.outcome = "returned"
           /\ delivered.response.attempts = 2
           /\ ~delivered.response.correct
           /\ delivered.hint # None
           /\ delivered.response.feedback =
                  <<"Not quite right. Here's a hint: ", delivered.hint[1]>>
           /\ ~usable =>
                  delivered.hint =
                      Some(<<"Try breaking down the problem into smaller steps.">>)
           /\ usable => delivered.hint = Get(value[1], "hint:")

\* The hint model answered with prose: the response carries the default hint.
C19_Witness ==
    /\ delivered.outcome = "returned"
    /\ delivered.hint_response = Some(<<"p", "p">>)
    /\ delivered.response.feedback =
           <<"Not quite right. Here's a hint: ",
             <<"Try breaking down the problem into smaller steps.">>>>

\* ---- C20
NotBlank(c) == c \notin {Newline, Blank}

\* C20: when the read-back command has returned the base64 text of the output
\* file, with or without line feeds inside it and blanks around it, the bytes
\* execute_manim_code decoded are the bytes of the file, and the read did not
\* fail.
C20_RoundTrip ==
    (/\ gv.video_content_result # None
     /\ SelectSeq(gv.video_content_result[1], NotBlank)
          = b64encode(sandboxes[gv.sandbox].media[1]))
    => gv.video_bytes = Some(sandboxes[gv.sandbox].media[1])

\* A file of four bytes with 255 among them (its text has '/' or '+' in it, and
\* '=' at its end) came back wrapped, with a line feed inside the text, and
\* execute_manim_code returned its bytes.
C20_Witness ==
    /\ gv.pc = "upload"
    /\ gv.video_content_result # None
    /\ Len(sandboxes[gv.sandbox].media[1]) = 4
    /\ sandboxes[gv.sandbox].media[1][4] = 255
    /\ \E i \in 1..(Len(gv.video_content_result[1]) - 1) :
         gv.video_content_result[1][i] = Newline
    /\ \E i \in 1..Len(gv.video_content_result[1]) : gv.video_content_result[1][i] = Pad
    /\ \E i \in 1..Len(gv.video_content_result[1]) : gv.video_content_result[1][i] \in {62, 63}
    /\ gv.video_bytes = sandboxes[gv.sandbox].media

\* ---- C21
\* C21: a read-back that is not the base64 text of the output file (cut short, or
\* with other characters in it) makes the execute stage fail and the result
\* 'failed'; the bytes execute_manim_code decodes, and the bytes stored in the
\* bucket, are never other than the bytes of the file.
C21_CorruptionFails ==
    /\ (/\ gv.video_content_result # None
        /\ SelectSeq(gv.video_content_result[1], NotBlank)
             # b64encode(sandboxes[gv.sandbox].media[1]))
       => /\ gv.video_bytes = None
          /\ gv.failed_at = "execute"
          /\ gv.result.status = "failed"
    /\ gv.video_bytes # None => gv.video_bytes = sandboxes[gv.sandbox].media
    /\ (gv.pc = "url" /\ FilePath(gv.video_id) \in DOMAIN bucket)
       => bucket[FilePath(gv.video_id)].bytes = sandboxes[gv.sandbox].media[1]

\* ---- C22
\* The program with its code points above 127 left out, the others in order.
RECURSIVE DropNonAscii(_)
DropNonAscii(code) ==
    IF code = <<>> THEN <<>>
    ELSE IF Head(code) <= 127 THEN <<Head(code)>> \o DropNonAscii(Tail(code))
    ELSE DropNonAscii(Tail(code))

\* C22: the text the write command left in scene.py is the generated program
\* with exactly its non-ASCII code points dropped and the ASCII ones kept in
\* order (an all-ASCII program arrives unchanged), and the command carries the
\* program as base64 characters only.
C22_AsciiProjection ==
    gv.write_command # None =>
      /\ \A i \in 1..Len(gv.write_command[1].echo) : gv.write_command[1].echo[i] \in 0..Pad
      /\ gv.write_command[1].echo = b64encode(DropNonAscii(gv.manim_code[1]))
      /\ sandboxes[gv.sandbox].scene # None =>
           /\ sandboxes[gv.sandbox].scene[1] = DropNonAscii(gv.manim_code[1])
           /\ (\A i \in 1..Len(gv.manim_code[1]) : gv.manim_code[1][i] <= 127)
              => sandboxes[gv.sandbox].scene = gv.manim_code

\* A program with two non-ASCII code points was written: scene.py holds "cde".
C22_Witness ==
    /\ gv.pc = "verify"
    /\ gv.manim_code = Some(<<99, 233, 100, 8217, 101>>)
    /\ sandboxes[gv.sandbox].scene = Some(<<99, 100, 101>>)

\* An all-ASCII program was written: scene.py holds it unchanged.
C22_WitnessAscii ==
    /\ gv.pc = "verify"
    /\ gv.manim_code = Some(<<99, 111, 100, 101>>)
    /\ sandboxes[gv.sandbox].scene = gv.manim_code

\* ---- C23
\* The ids of the sessions of user u that are active.
ActiveSessions(u) ==
    {sessions[i].id : i \in {j \in 1..Len(sessions) :
                                sessions[j].user_id = u /\ sessions[j].is_active}}

\* C23: when no POST /sessions request is between its arrival and its
\* response, each user has at most one active session, and it is the one the
\* last returned create_session for that user created.
C23_OneActiveSession ==
    (\A p \in Processes : cs[p].pc \in {"idle", "returned", "raised"})
    => \A u \in SessionUsers :
         /\ Cardinality(ActiveSessions(u)) <= 1
         /\ \A id \in ActiveSessions(u) : created[u] = Some(id)

\* ---- C24
\* C24: when generate_video has returned, the bucket holds an object named
\* <video_id>.mp4 exactly when the result has status 'completed'; a run that
\* returned 'failed' left no object under its video id.
C24_StoredIffCompleted ==
    gv.pc = "returned" =>
        (FilePath(gv.video_id) \in DOMAIN bucket <=> gv.result.status = "completed")

\* ---- C25
\* C25: a validate_user_answer call that fails leaves the persisted attempt
\* counters as they were: the step in which a call raises (loading the question,
\* the judging model call, or the hint generation of a wrong second attempt)
\* writes nothing to the questions table.
C25_FailureKeepsAttempts ==
    [][delivered'.outcome = "raised" => questions' = questions]_vars

\* ---- C26
\* C26: GET /users/{user_id} for an id with no row in the users table is
\* answered 404, and a 500 is answered only when the select itself raised.
C26_MissingUserIs404 ==
    /\ gu.selected = "no row" => gu.response.status_code = 404
    /\ gu.response.status_code = 500 => gu.selected = "failed"

\* ---- C27
\* C27: the users table is written only by a request whose signature was
\* verified, whatever the webhook secret is set to, and only for the events
\* user.created, user.updated and user.deleted.
C27_WritesOnlyWhenVerified ==
    [][users' # users =>
          /\ wh'.verified
          /\ wh'.event \in {"user.created", "user.updated", "user.deleted"}]_vars

====
